---- MODULE Spec2Model ----
(***************************************************************************)
(* A model of the crawl engine of app/backend/scrape/news_scrapper.py:     *)
(* the NewsScrapper session (constructor, scrape(), add_website()), the    *)
(* visited-URL ledger (table visited_urls), the site configuration store   *)
(* (table websites) and the in-memory membership cache (the Bloom filter   *)
(* visited_urls).                                                          *)
(*                                                                         *)
(* URLs are small integers: Root is website_url, 1..10 are pages of the    *)
(* site, Ghost is a URL that no page links to.  Python values that the     *)
(* code compares with `in` are tagged with their Python type, so that a    *)
(* str never equals a dict.                                                *)
(***************************************************************************)
EXTENDS Integers, Sequences, FiniteSets, TLC

\* ------------------------------------------------------------- bounds
\* page quotas (max_pages) range over 0..MaxPages
MaxPages == 3
\* at most MaxFaults collaborator / store failures are injected in one session
MaxFaults == 2
\* add_visited_urls is called at most MaxCalls times in SpecLedger
MaxCalls == 2

\* ------------------------------------------------------------- values
Null == "None"
Empty == ""
NonStr == "<not-a-str>"

Root == 0
Ghost == 10 + 1

Domain == "site.test"
OtherDomain == "other.test"

Fields == {"login_url", "username", "password",
           "username_selector", "password_selector", "submit_button_selector"}
SelectorFields == {"username_selector", "password_selector", "submit_button_selector"}

\* Python truthiness of an attribute value: None and '' are falsy
Truthy(v) == v \notin {Null, Empty}

\* the classification labels a classify_and_extract_news_article response carries
Classes == {"article", "not_article"}

\* ------------------------------------------------------ python values
Str(u) == [t |-> "str", href |-> u]
Link(u) == [t |-> "dict", href |-> u]

\* x in xs  (python list membership, by equality)
InList(x, xs) == \E i \in DOMAIN xs : xs[i] = x

\* the value of response.likely_urls: a list of URLs, a single string, or None
LikelyList(s) == [kind |-> "list", v |-> s]
LikelyStr(u) == [kind |-> "str", v |-> <<u>>]
LikelyNone == [kind |-> "none", v |-> <<>>]

\* len() of a URL string such as "https://site.test/7"
UrlChars(u) == IF u < 10 THEN 18 + 1 ELSE 18 + 2

\* len(lucky_urls); defined for a list and a str, a TypeError for None
LenLikely(l) == IF l.kind = "list" THEN Len(l.v) ELSE UrlChars(l.v[1])

\* the response objects scrape() keeps in its local `response`
NoResponse == [kind |-> "none", classification |-> Null]
ClsResponse(c) == [kind |-> "classification", classification |-> c]
NoAttr == "<AttributeError>"
UrlsResponse == [kind |-> "likely_urls", classification |-> NoAttr]

\* what reading .classification of a select_likely_URLS response can give:
\* scrape() reads only .likely_urls of that object, so whether it has the
\* attribute, and with what value, is left open
StaleAttrs == {NoAttr, Null, "article"}

SeqToSet(s) == {s[i] : i \in DOMAIN s}


\* ------------------------------------------------- visited-URL ledger
\* a row of table visited_urls, PRIMARY KEY (url, domain)
LedgerRow(u, d, now, c) == [url |-> u, domain |-> d, visit_date |-> now, is_article |-> c]

\* a plausible slip: only the rows flagged as articles are selected
GetVisitedUrlsArticles(L, d) ==
    {<<r.url, r.is_article>> : r \in {e \in L : e.domain = d /\ e.is_article = "article"}}

\* SELECT url, is_article FROM visited_urls WHERE domain = :domain
GetVisitedUrls(L, d) == {<<r.url, r.is_article>> : r \in {e \in L : e.domain = d}}

\* a plausible slip: ON CONFLICT (url, domain) DO UPDATE
InsertOverwrite(L, r) ==
    {e \in L : ~(e.url = r.url /\ e.domain = r.domain)} \cup {r}

\* INSERT ... ON CONFLICT (url, domain) DO NOTHING, one row
InsertIgnore(L, r) ==
    IF \E e \in L : e.url = r.url /\ e.domain = r.domain THEN L ELSE L \cup {r}

\* the batch insert of add_visited_urls: the rows of the batch, in order
RECURSIVE InsertBatch(_, _, _, _)
InsertBatch(L, batch, d, now) ==
    IF batch = <<>> THEN L
    ELSE InsertBatch(InsertIgnore(L, LedgerRow(batch[1][1], d, now, batch[1][2])),
                     Tail(batch), d, now)

\* a plausible slip: the rows of the domain are replaced by the batch
AddVisitedUrlsReplacing(L, batch, d, now, storeOk) ==
    IF batch = <<>> \/ ~storeOk THEN L
    ELSE InsertBatch({e \in L : e.domain # d}, batch, d, now)

\* add_visited_urls(url_tuples): nothing for an empty batch; a store error is
\* caught and printed, nothing being committed
AddVisitedUrls(L, batch, d, now, storeOk) ==
    IF batch = <<>> \/ ~storeOk THEN L ELSE InsertBatch(L, batch, d, now)

\* ------------------------------------------------- site config store
\* a row of table websites, PRIMARY KEY url (the domain)
WebsiteRow(d, a, now) ==
    [url |-> d, login_url |-> a.login_url, username |-> a.username,
     password |-> a.password, username_selector |-> a.username_selector,
     password_selector |-> a.password_selector,
     submit_button_selector |-> a.submit_button_selector, last_updated |-> now]

\* a plausible slip: the provided value is written whether NULL or not
Overwrite(p, old) == p

\* COALESCE(:p, old)
Coalesce(p, old) == IF p # Null THEN p ELSE old

Existing(W, d) == {r \in W : r.url = d}

\* add_website(): UPDATE ... COALESCE when a row exists, INSERT otherwise
AddWebsite(W, d, a, now) ==
    IF Existing(W, d) # {}
    THEN {IF r.url = d
          THEN WebsiteRow(d, [f \in Fields |-> Coalesce(a[f], r[f])], now)
          ELSE r : r \in W}
    ELSE W \cup {WebsiteRow(d, a, now)}

\* a plausible slip: a stored value replaces whatever the caller passed
StoredWins(a, stored) ==
    [f \in Fields |-> IF Truthy(stored[f]) THEN stored[f] ELSE a[f]]

\* _update_attributes_from_stored_values: a stored value fills an attribute
\* only when the attribute is falsy and the stored value is truthy
UpdateAttributesFromStoredValues(a, stored) ==
    [f \in Fields |-> IF ~Truthy(a[f]) /\ Truthy(stored[f]) THEN stored[f] ELSE a[f]]

\* _can_authenticate
CanAuthenticate(a) == a.username # Null /\ a.password # Null

\* ---------------------------------------------------------- state
VARIABLES
    ledger,              \* table visited_urls
    websites,            \* table websites
    clock,               \* datetime.now() / CURRENT_TIMESTAMP
    pc,                  \* where the session is
    crawl, max_pages,    \* constructor arguments
    given,               \* the login arguments as the caller passed them
    attrs,               \* login_url, username, password and the three selectors
    rds_engine,          \* "engine", or Null when _create_rds_engine failed
    visited_urls,        \* URLs added to the Bloom filter
    fp,                  \* URLs the Bloom filter reports although never added
    logged_in, session_cookies,
    urls, lucky_urls, hallucinated,        \* locals of scrape(), seed step
    to_visit, responses, response, newly_visited_urls,
    current_url, new_links, new_lucky_urls, \* locals of the crawl loop
    triaged,             \* how the latest select_likely_URLS call of the loop ended
    enqueued,            \* every URL put on the frontier, in order
    dequeued,            \* every URL taken from the frontier, in order
    navLog,              \* URLs scrape() navigated to, in order
    clsLog,              \* <<url, outcome>> of every classification scrape() attempted
    flushed,             \* the batches passed to add_visited_urls, in order
    cookieLog,           \* what add_cookies was called with
    loginLog,            \* login-page navigations and login collaborator calls
    returned,            \* what scrape() returned
    site,                \* which pages and collaborator answers the session meets
    budget,              \* how many more failures the environment may inject
    lastCommitted        \* the batch of the latest committed add_visited_urls call

storeVars == <<ledger, websites, clock>>
argVars == <<crawl, max_pages, given>>
ctorVars == <<attrs, rds_engine, visited_urls, fp, logged_in, session_cookies, loginLog>>
seedVars == <<urls, lucky_urls, hallucinated>>
loopVars == <<current_url, new_links, new_lucky_urls, triaged, enqueued, dequeued>>
scrapeVars == <<to_visit, responses, response, newly_visited_urls, navLog, clsLog,
                flushed, cookieLog, returned>>
vars == <<storeVars, pc, argVars, ctorVars, seedVars, loopVars, scrapeVars, site, budget,
          lastCommitted>>

\* is_url_visited: url in self.visited_urls
IsUrlVisited(u) == u \in visited_urls \/ u \in fp


\* ------------------------------------------------------ construction
NoArgs == [f \in Fields |-> Null]
FullArgs == [login_url |-> "https://site.test/login", username |-> "user",
             password |-> "secret", username_selector |-> "#user",
             password_selector |-> "#pass", submit_button_selector |-> "#go"]
ArgChoices == {NoArgs, FullArgs}

\* ledgers an earlier session can have left behind
LedgerChoices ==
    { {},
      {LedgerRow(Root, Domain, 0, "article")},
      {LedgerRow(1, Domain, 0, "not_article")},
      {LedgerRow(Root, Domain, 0, Null), LedgerRow(2, Domain, 0, "article")},
      {LedgerRow(2, OtherDomain, 0, "article")} }

\* what the collaborators of the login chain can answer
LoginUrlOutcomes == {"raise", "https://site.test/login", "not a url", Empty, Null, NonStr}
SelectorTriples == {<<"#user", "#pass", "#go">>, <<"#user", Empty, "#go">>,
                    <<Null, "#pass", "#go">>}
SelectorOutcomes ==
    [nav : {"ok", "raise"}, detect : {"ok", "raise"}, sel : SelectorTriples]
LoginOutcomes == {"raise", "no_cookies", "cookies"}

IsStr(v) == v \notin {Null, NonStr}

\* strings page.goto cannot navigate to
MalformedUrls == {Empty, "not a url"}
\* page.goto(url) can succeed only for a string that is a URL
WellFormed(v) == IsStr(v) /\ v \notin MalformedUrls

\* a plausible slip: the session counts as logged in whatever the cookies
VerifySessionLenient(cookies) == [raised |-> FALSE, logged_in |-> TRUE]

\* _verify_session: the cookies are kept; no cookies raises, any cookie
\* sets logged_in
VerifySession(cookies) == [raised |-> cookies = "[]", logged_in |-> cookies # "[]"]

\* a plausible slip: the detected selectors are taken without the all() check
InitializeLoginUnchecked(a, luOut, selOut) ==
    LET askUrl == ~Truthy(a.login_url)
        a1 == IF askUrl /\ luOut # "raise" THEN [a EXCEPT !.login_url = luOut] ELSE a
        log1 == IF askUrl THEN <<"detect_login_url">> ELSE <<>>
        askSel == \E f \in SelectorFields : ~Truthy(a1[f])
        a2 == [a1 EXCEPT !.username_selector = selOut.sel[1],
                         !.password_selector = selOut.sel[2],
                         !.submit_button_selector = selOut.sel[3]]
    IN  IF askUrl /\ luOut = "raise" THEN [ok |-> FALSE, attrs |-> a, log |-> log1]
        ELSE IF ~IsStr(a1.login_url) THEN [ok |-> FALSE, attrs |-> a1, log |-> log1]
        ELSE IF ~askSel THEN [ok |-> TRUE, attrs |-> a1, log |-> log1]
        ELSE IF selOut.nav = "raise" \/ ~WellFormed(a1.login_url)
             THEN [ok |-> FALSE, attrs |-> a1, log |-> log1 \o <<"goto_login">>]
        ELSE IF selOut.detect = "raise"
             THEN [ok |-> FALSE, attrs |-> a1,
                   log |-> log1 \o <<"goto_login", "detect_selectors">>]
        ELSE [ok |-> TRUE, attrs |-> a2,
              log |-> log1 \o <<"goto_login", "detect_selectors">>]

\* _initialize_login with the collaborators' answers luOut (get_login_url) and
\* selOut (get_login_selectors): whether to call login(), the attributes and
\* what was navigated to or asked on the way
InitializeLogin(a, luOut, selOut) ==
    LET askUrl == ~Truthy(a.login_url)
        a1 == IF askUrl /\ luOut # "raise" THEN [a EXCEPT !.login_url = luOut] ELSE a
        log1 == IF askUrl THEN <<"detect_login_url">> ELSE <<>>
        askSel == \E f \in SelectorFields : ~Truthy(a1[f])
        a2 == [a1 EXCEPT !.username_selector = selOut.sel[1],
                         !.password_selector = selOut.sel[2],
                         !.submit_button_selector = selOut.sel[3]]
    IN  IF askUrl /\ luOut = "raise" THEN [ok |-> FALSE, attrs |-> a, log |-> log1]
        ELSE IF ~IsStr(a1.login_url) THEN [ok |-> FALSE, attrs |-> a1, log |-> log1]
        ELSE IF ~askSel THEN [ok |-> TRUE, attrs |-> a1, log |-> log1]
        ELSE IF selOut.nav = "raise" \/ ~WellFormed(a1.login_url)
             THEN [ok |-> FALSE, attrs |-> a1, log |-> log1 \o <<"goto_login">>]
        ELSE IF selOut.detect = "raise" \/ \E i \in 1..3 : ~Truthy(selOut.sel[i])
             THEN [ok |-> FALSE, attrs |-> a1,
                   log |-> log1 \o <<"goto_login", "detect_selectors">>]
        ELSE [ok |-> TRUE, attrs |-> a2,
              log |-> log1 \o <<"goto_login", "detect_selectors">>]

InitSession ==
    /\ pc = "new"
    /\ rds_engine = Null
    /\ visited_urls = {}
    /\ fp = {}
    /\ logged_in = FALSE
    /\ session_cookies = Null
    /\ loginLog = <<>>
    /\ urls = <<>>
    /\ lucky_urls = LikelyNone
    /\ hallucinated = 0
    /\ to_visit = <<>>
    /\ responses = <<>>
    /\ response = NoResponse
    /\ newly_visited_urls = <<>>
    /\ current_url = Root
    /\ new_links = <<>>
    /\ new_lucky_urls = LikelyNone
    /\ triaged = "not yet"
    /\ enqueued = <<>>
    /\ dequeued = <<>>
    /\ navLog = <<>>
    /\ clsLog = <<>>
    /\ flushed = <<>>
    /\ cookieLog = <<>>
    /\ returned = <<>>
    /\ lastCommitted = <<>>

Init ==
    /\ ledger \in LedgerChoices
    /\ websites = {}
    /\ clock = 1
    /\ attrs \in ArgChoices
    /\ given = attrs
    /\ crawl \in BOOLEAN
    /\ max_pages \in 0..MaxPages
    /\ site = "full"
    /\ budget = MaxFaults
    /\ InitSession

\* __init__, lines 49-65: the engine, the schema bootstrap, the stored
\* configuration and the rehydration of the Bloom filter.  A store error is
\* swallowed by _create_rds_engine, _initialize_database and
\* _get_stored_domain_info; get_visited_urls then returns None and iterating
\* it raises out of the constructor.
CtorStore ==
    /\ pc = "new"
    /\ \E engineOk \in BOOLEAN, infoOk \in BOOLEAN, loadOk \in BOOLEAN, bloomFp \in SUBSET {2} :
         LET nFail == (IF engineOk THEN 0 ELSE 1)
                      + (IF engineOk /\ ~infoOk THEN 1 ELSE 0)
                      + (IF engineOk /\ ~loadOk THEN 1 ELSE 0)
             stored == Existing(websites, Domain)
             snapshot == {t[1] : t \in GetVisitedUrls(ledger, Domain)}
         IN  /\ nFail <= budget
             /\ ~engineOk => ~infoOk /\ ~loadOk
             /\ budget' = budget - nFail
             /\ rds_engine' = IF engineOk THEN "engine" ELSE Null
             /\ attrs' = IF infoOk /\ stored # {}
                         THEN UpdateAttributesFromStoredValues(attrs, CHOOSE r \in stored : TRUE)
                         ELSE attrs
             /\ IF loadOk
                THEN /\ visited_urls' = snapshot
                     /\ fp' = bloomFp
                     /\ bloomFp \cap snapshot = {}
                     /\ bloomFp # {} => snapshot # {}
                     /\ pc' = "ctor_browser"
                ELSE /\ bloomFp = {}
                     /\ UNCHANGED <<visited_urls, fp>>
                     /\ pc' = "ctor_raised"
    /\ UNCHANGED <<storeVars, argVars, logged_in, session_cookies, loginLog, seedVars,
                   loopVars, scrapeVars, site, lastCommitted>>

\* __init__, lines 68-97: the browser is launched and the root page opened
CtorBrowser ==
    /\ pc = "ctor_browser"
    /\ \E navOk \in BOOLEAN :
         /\ ~navOk => budget > 0
         /\ budget' = IF navOk THEN budget ELSE budget - 1
         /\ pc' = IF navOk THEN "ctor_login" ELSE "ctor_raised"
    /\ UNCHANGED <<storeVars, argVars, ctorVars, seedVars, loopVars, scrapeVars,
                   site, lastCommitted>>

\* __init__, lines 99-104, with _initialize_login, login and _verify_session
CtorLogin ==
    /\ pc = "ctor_login"
    /\ IF ~CanAuthenticate(attrs)
       THEN /\ pc' = "ready"
            /\ UNCHANGED <<attrs, logged_in, session_cookies, loginLog>>
       ELSE \E luOut \in LoginUrlOutcomes, selOut \in SelectorOutcomes,
               out \in LoginOutcomes :
              LET r == InitializeLogin(attrs, luOut, selOut)
              IN  /\ attrs' = r.attrs
                  /\ IF ~r.ok
                     THEN /\ pc' = "ready"
                          /\ loginLog' = loginLog \o r.log
                          /\ UNCHANGED <<logged_in, session_cookies>>
                     ELSE \* login(): page.goto(login_url) raises for a string
                          \* that is no URL
                          LET cookies == IF out = "cookies" THEN "[cookie]" ELSE "[]"
                              v == VerifySession(cookies)
                          IN
                          /\ ~WellFormed(r.attrs.login_url) => out = "raise"
                          /\ loginLog' = loginLog \o r.log \o
                               (IF out = "raise" THEN <<"login", "goto_login">>
                                ELSE <<"login", "goto_login", "submit">>)
                          /\ session_cookies' =
                               IF out = "raise" THEN session_cookies ELSE cookies
                          /\ logged_in' = IF out = "raise" THEN logged_in ELSE v.logged_in
                          /\ pc' = IF out = "raise" \/ v.raised THEN "ctor_raised"
                                    ELSE "ready"
    /\ UNCHANGED <<storeVars, argVars, rds_engine, visited_urls, fp, seedVars, loopVars,
                   scrapeVars, site, budget, lastCommitted>>


\* ------------------------------------------------------------ scrape
Links(hrefs) == [i \in DOMAIN hrefs |-> Link(hrefs[i])]

Page(hrefs, tri) == [links |-> Links(hrefs), tri |-> tri]

\* what the root page shows: the links extract_content(page, "links") returns
\* and what select_likely_URLS answers for them (besides raising)
PageChoices(st) ==
    IF st = "bare" THEN {Page(<<1>>, LikelyList(<<1>>))}
    ELSE {Page(<<>>, LikelyList(<<1>>)),
          Page(<<1>>, LikelyNone),
          Page(<<1>>, LikelyStr(1)),
          Page(<<1>>, LikelyStr(Ghost)),
          Page(<<1>>, LikelyList(<<>>)),
          Page(<<1>>, LikelyList(<<1, 1>>)),
          Page(<<1, 2>>, LikelyList(<<2, 1>>)),
          Page(<<1, 2>>, LikelyList(<<1, Ghost, 2>>)),
          Page(<<1, 1, 2>>, LikelyList(<<2, 1, 2>>)),
          Page(<<Root, 1>>, LikelyList(<<Root, 1>>)),
          Page(<<1, 2, 3, 4, 5>>, LikelyList(<<1, 2, 3, Ghost>>)),
          Page(<<1, 2, 3, 4, 5, 6, 7, 8, 9, 10>>,
               LikelyList(<<1, 2, 3, 4, 5, 6, 7, 8, 9, 10>>))}

\* select_likely_URLS raised
TriageRaised == [kind |-> "raise", v |-> <<>>]

\* what the pages of the crawl loop show
LoopPageChoices(st) ==
    IF st = "bare" THEN {Page(<<1>>, LikelyList(<<1>>))}
    ELSE {Page(<<>>, LikelyNone),
          Page(<<3>>, LikelyStr(3)),
          Page(<<1, 2>>, LikelyList(<<2, Ghost>>)),
          Page(<<1, 2>>, TriageRaised)}

\* what classify_and_extract_news_article can do: raise, return None, or
\* return a response carrying a classification
ClsOutcomes == {"raise", "none"} \cup Classes

\* a plausible slip: the suggestions are enqueued unfiltered
Unfiltered(lucky, pool) == lucky.v

\* [url for url in lucky_urls if url in pool] for a list, and
\* [lucky_urls] if lucky_urls in pool else [] for anything else
Filter(lucky, pool) ==
    IF lucky.kind = "list"
    THEN SelectSeq(lucky.v, LAMBDA u : InList(Str(u), pool))
    ELSE IF lucky.kind = "str" /\ InList(Str(lucky.v[1]), pool) THEN lucky.v ELSE <<>>

\* url_list = [link['href'] for link in urls]
UrlList(links) == [i \in DOMAIN links |-> Str(links[i].href)]

\* the seed step filters against the hrefs (lines 229-235)
FilterSeed(lucky, links) == Filter(lucky, UrlList(links))

\* the crawl loop filters against the link objects themselves (lines 298-301)
FilterLoop(lucky, links) == Filter(lucky, links)

\* `if hasattr(self, 'session_cookies') and self.session_cookies`
CookiesTruthy == session_cookies \notin {Null, "[]"}

\* a plausible slip: the batch is committed although the connection failed
StoreAlwaysOk(up) == TRUE

\* the store answers a call: an engine exists and the connection works
StoreOk(up) == rds_engine # Null /\ up

\* a plausible slip: deque.pop(), which takes the newest URL
PopRight(q) == [url |-> q[Len(q)], rest |-> SubSeq(q, 1, Len(q) - 1)]

\* to_visit.popleft()
PopLeft(q) == [url |-> Head(q), rest |-> Tail(q)]

\* to_visit.extend(n_lucky_urls)
Extend(q, xs) == q \o xs

\* a plausible slip: the crawl flag is not looked at
CrawlFlagIgnored == FALSE

\* `if not self.crawl`, line 256
CrawlDisabled == ~crawl

\* scrape(), lines 213-241: cookies, the root navigation, the root's links,
\* the triage and the hallucination filter, the frontier
ScrapeSeed ==
    /\ pc = "ready"
    /\ cookieLog' = IF CookiesTruthy THEN cookieLog \o <<Len(navLog)>> ELSE cookieLog
    /\ navLog' = navLog \o <<Root>>
    /\ \E fail \in {"no", "goto", "links", "triage"}, page \in PageChoices(site) :
         LET links == page.links
             tri == page.tri
         IN
         /\ fail # "no" => budget > 0
         /\ budget' = IF fail = "no" THEN budget ELSE budget - 1
         /\ IF fail # "no"
            THEN /\ pc' = "raised"
                 /\ page = CHOOSE p \in PageChoices(site) : TRUE
                 /\ urls' = IF fail = "triage" THEN links ELSE urls
                 /\ UNCHANGED <<lucky_urls, hallucinated, to_visit, response, enqueued>>
            ELSE /\ urls' = links
                 /\ lucky_urls' = tri
                 /\ response' = UrlsResponse
                 /\ IF tri.kind = "none"
                    THEN \* len(None) raises a TypeError at line 238
                         /\ pc' = "raised"
                         /\ UNCHANGED <<hallucinated, to_visit, enqueued>>
                    ELSE /\ hallucinated' = LenLikely(tri) - Len(FilterSeed(tri, links))
                         /\ to_visit' = Extend(to_visit, FilterSeed(tri, links))
                         /\ enqueued' = enqueued \o FilterSeed(tri, links)
                         /\ pc' = "classify_root"
    /\ UNCHANGED <<storeVars, argVars, ctorVars, current_url, new_links, new_lucky_urls,
                   triaged, dequeued, responses, newly_visited_urls,
                   clsLog, flushed, returned, site, lastCommitted>>

\* the classification recorded for a URL: response.classification if response else None
Recorded(resp) == IF resp.kind = "none" THEN Null ELSE resp.classification

\* scrape(), lines 244-260: the root page is classified; with crawl disabled
\* the root is flushed and scrape() returns.  When the classification raises,
\* `response` still is the select_likely_URLS response of line 225 and lines
\* 257/260 read its .classification
ScrapeClassifyRoot ==
    /\ pc = "classify_root"
    /\ \E extractOk \in BOOLEAN, out \in ClsOutcomes, up \in BOOLEAN,
          stale \in StaleAttrs :
         LET nFail == (IF extractOk THEN 0 ELSE 1)
                      + (IF extractOk /\ out \notin Classes THEN 1 ELSE 0)
                      + (IF up THEN 0 ELSE 1)
             resp == CASE out = "raise" -> [response EXCEPT !.classification = stale]
                       [] out = "none" -> NoResponse
                       [] OTHER -> ClsResponse(out)
             resps == IF out = "raise" THEN responses
                      ELSE responses \o << <<Root, resp>> >>
             batch == << <<Root, Recorded(resp)>> >>
         IN  /\ nFail <= budget
             /\ budget' = budget - nFail
             /\ out # "raise" => stale = NoAttr
             /\ IF ~extractOk
                THEN \* extract_content at line 245 is outside the try
                     /\ out = "article" /\ up
                     /\ pc' = "raised"
                     /\ clsLog' = clsLog \o << <<Root, "extract_raise">> >>
                     /\ UNCHANGED <<response, responses, newly_visited_urls,
                                    flushed, returned, ledger, clock, lastCommitted>>
                ELSE /\ response' = IF out = "raise" THEN response ELSE resp
                     /\ responses' = resps
                     /\ clsLog' = clsLog \o << <<Root,
                                     IF out \in Classes THEN "ok" ELSE out>> >>
                     /\ IF Recorded(resp) = NoAttr
                        THEN \* AttributeError at line 257 or 260
                             /\ up
                             /\ pc' = "raised"
                             /\ UNCHANGED <<newly_visited_urls, flushed, returned,
                                            ledger, clock, lastCommitted>>
                        ELSE IF CrawlDisabled
                        THEN /\ ledger' = AddVisitedUrls(ledger, batch, Domain, clock,
                                                         StoreOk(up))
                             /\ lastCommitted' = IF StoreOk(up) THEN batch ELSE lastCommitted
                             /\ clock' = clock + 1
                             /\ flushed' = flushed \o <<batch>>
                             /\ returned' = resps
                             /\ pc' = "done"
                             /\ UNCHANGED newly_visited_urls
                        ELSE /\ up
                             /\ newly_visited_urls' = batch
                             /\ pc' = "loop"
                             /\ UNCHANGED <<flushed, returned, ledger, clock,
                                            lastCommitted>>
    /\ UNCHANGED <<websites, argVars, ctorVars, seedVars, loopVars, to_visit, navLog,
                   cookieLog, site>>

\* a plausible slip: the quota compared with <=
LoopGuardOffByOne == to_visit # <<>> /\ Len(responses) <= max_pages

\* the guard of the crawl loop, line 262
LoopGuard == to_visit # <<>> /\ Len(responses) < max_pages

\* a plausible slip: a skipped URL is put in the visited accumulator
CrawlSkipRecorded ==
    /\ pc = "loop"
    /\ LoopGuard
    /\ IsUrlVisited(PopLeft(to_visit).url)
    /\ current_url' = PopLeft(to_visit).url
    /\ to_visit' = PopLeft(to_visit).rest
    /\ dequeued' = dequeued \o <<PopLeft(to_visit).url>>
    /\ newly_visited_urls' = newly_visited_urls \o << <<PopLeft(to_visit).url, Null>> >>
    /\ UNCHANGED <<storeVars, pc, argVars, ctorVars, seedVars, new_links, new_lucky_urls,
                   triaged, enqueued, responses, response, navLog, clsLog, flushed,
                   cookieLog, returned, site, budget, lastCommitted>>

\* one iteration of the crawl loop that finds its URL in the Bloom filter
\* (lines 263-266)
CrawlSkip ==
    /\ pc = "loop"
    /\ LoopGuard
    /\ IsUrlVisited(PopLeft(to_visit).url)
    /\ current_url' = PopLeft(to_visit).url
    /\ to_visit' = PopLeft(to_visit).rest
    /\ dequeued' = dequeued \o <<PopLeft(to_visit).url>>
    /\ UNCHANGED <<storeVars, pc, argVars, ctorVars, seedVars, new_links, new_lucky_urls,
                   triaged, enqueued, responses, response, newly_visited_urls, navLog, clsLog, flushed,
                   cookieLog, returned, site, budget, lastCommitted>>

\* one iteration of the crawl loop that processes its URL (lines 263-308):
\* the navigation, the classification (in a try), the links of the page, and
\* the triage and its filter (in a try)
CrawlStep ==
    /\ pc = "loop"
    /\ LoopGuard
    /\ ~IsUrlVisited(PopLeft(to_visit).url)
    /\ current_url' = PopLeft(to_visit).url
    /\ navLog' = navLog \o <<PopLeft(to_visit).url>>
    /\ dequeued' = dequeued \o <<PopLeft(to_visit).url>>
    /\ \E fail \in {"no", "goto", "links"}, out \in ClsOutcomes,
          page \in LoopPageChoices(site) :
         LET u == PopLeft(to_visit).url
             links == page.links
             tri == page.tri
             nFail == (IF fail = "no" THEN 0 ELSE 1)
                      + (IF fail # "goto" /\ out \notin Classes THEN 1 ELSE 0)
                      + (IF fail = "no" /\ tri.kind = "raise" THEN 1 ELSE 0)
             resp == CASE out = "raise" -> response
                       [] out = "none" -> NoResponse
                       [] OTHER -> ClsResponse(out)
             dflt == CHOOSE p \in LoopPageChoices(site) : TRUE
         IN  /\ nFail <= budget
             /\ budget' = budget - nFail
             /\ IF fail = "goto"
                THEN \* page.goto is outside the try: scrape() raises
                     /\ out = "article" /\ page = dflt
                     /\ pc' = "raised"
                     /\ to_visit' = PopLeft(to_visit).rest
                     /\ UNCHANGED <<responses, response, newly_visited_urls, clsLog,
                                    new_links, new_lucky_urls, triaged, hallucinated,
                                    enqueued>>
                ELSE /\ clsLog' = clsLog \o << <<u, IF out \in Classes THEN "ok" ELSE out>> >>
                     /\ responses' = IF out \in Classes
                                     THEN responses \o << <<u, resp>> >>
                                     ELSE responses
                     \* the append of line 281 is inside the try, after the call
                     /\ newly_visited_urls' =
                            IF out = "raise" THEN newly_visited_urls
                            ELSE newly_visited_urls \o << <<u, Recorded(resp)>> >>
                     /\ IF fail = "links"
                        THEN \* extract_content at line 287 is outside the try
                             /\ page = dflt
                             /\ pc' = "raised"
                             /\ response' = resp
                             /\ to_visit' = PopLeft(to_visit).rest
                             /\ UNCHANGED <<new_links, new_lucky_urls, triaged,
                                            hallucinated, enqueued>>
                        ELSE /\ new_links' = links
                             /\ pc' = "loop"
                             /\ triaged' = IF tri.kind = "raise" THEN "raised"
                                            ELSE "answered"
                             /\ IF tri.kind = "raise"
                                THEN /\ response' = resp
                                     /\ to_visit' = PopLeft(to_visit).rest
                                     /\ UNCHANGED <<new_lucky_urls, hallucinated, enqueued>>
                                ELSE /\ response' = UrlsResponse
                                     /\ new_lucky_urls' = tri
                                     /\ IF tri.kind = "none"
                                        THEN \* len(None): the TypeError is caught
                                             /\ to_visit' = PopLeft(to_visit).rest
                                             /\ UNCHANGED <<hallucinated, enqueued>>
                                        ELSE /\ hallucinated' = LenLikely(tri)
                                                  - Len(FilterLoop(tri, links))
                                             /\ to_visit' = Extend(PopLeft(to_visit).rest,
                                                                   FilterLoop(tri, links))
                                             /\ enqueued' = enqueued
                                                  \o FilterLoop(tri, links)
    /\ UNCHANGED <<storeVars, argVars, ctorVars, urls, lucky_urls, flushed, cookieLog,
                   returned, site, lastCommitted>>

\* a plausible slip: one add_visited_urls call per processed URL
CrawlFlushPerUrl ==
    /\ pc = "loop"
    /\ ~LoopGuard
    /\ \E up \in BOOLEAN :
         /\ ~up => budget > 0
         /\ budget' = IF up THEN budget ELSE budget - 1
         /\ ledger' = AddVisitedUrls(ledger, newly_visited_urls, Domain, clock, StoreOk(up))
         /\ lastCommitted' = IF StoreOk(up) /\ newly_visited_urls # <<>>
                              THEN newly_visited_urls ELSE lastCommitted
    /\ clock' = clock + 1
    /\ flushed' = flushed \o [i \in DOMAIN newly_visited_urls |-> <<newly_visited_urls[i]>>]
    /\ returned' = responses
    /\ pc' = "done"
    /\ UNCHANGED <<websites, argVars, ctorVars, seedVars, loopVars, to_visit, responses,
                   response, newly_visited_urls, navLog, clsLog, cookieLog, site>>

\* scrape(), lines 310-311: the loop is over, the accumulator is flushed in
\* one add_visited_urls call and the results are returned
CrawlFlush ==
    /\ pc = "loop"
    /\ ~LoopGuard
    /\ \E up \in BOOLEAN :
         /\ ~up => budget > 0
         /\ budget' = IF up THEN budget ELSE budget - 1
         /\ ledger' = AddVisitedUrls(ledger, newly_visited_urls, Domain, clock, StoreOk(up))
         /\ lastCommitted' = IF StoreOk(up) /\ newly_visited_urls # <<>>
                              THEN newly_visited_urls ELSE lastCommitted
    /\ clock' = clock + 1
    /\ flushed' = flushed \o <<newly_visited_urls>>
    /\ returned' = responses
    /\ pc' = "done"
    /\ UNCHANGED <<websites, argVars, ctorVars, seedVars, loopVars, to_visit, responses,
                   response, newly_visited_urls, navLog, clsLog, cookieLog, site>>

\* add_website(), called after scrape() by the crawl page; a store error
\* propagates to the caller
AddWebsiteCall ==
    /\ pc = "done"
    /\ \E up \in BOOLEAN :
         /\ ~up => budget > 0
         /\ budget' = IF up THEN budget ELSE budget - 1
         /\ IF StoreOk(up)
            THEN /\ websites' = AddWebsite(websites, Domain, attrs, clock)
                 /\ clock' = clock + 1
                 /\ pc' = "saved"
            ELSE /\ pc' = "raised"
                 /\ UNCHANGED <<websites, clock>>
    /\ UNCHANGED <<ledger, argVars, ctorVars, seedVars, loopVars, scrapeVars, site,
                   lastCommitted>>

Next ==
    \/ CtorStore
    \/ CtorBrowser
    \/ CtorLogin
    \/ ScrapeSeed
    \/ ScrapeClassifyRoot
    \/ CrawlSkip
    \/ CrawlStep
    \/ CrawlFlush
    \/ AddWebsiteCall

Spec == Init /\ [][Next]_vars

\* the session runs on: every call scrape() makes returns, with a result
\* or with an exception, so a step that can be taken is taken
SpecLive == Init /\ [][Next]_vars /\ WF_vars(Next)


\* ------------------------------------------- the ledger on its own
\* the batches add_visited_urls is called with: up to two (url, is_article)
\* tuples, duplicates included
BatchItems == {<<u, c>> : u \in {1, 2}, c \in {"article", Null}}
Batches == {<<>>} \cup {<<a>> : a \in BatchItems}
               \cup {<<a, b>> : a \in BatchItems, b \in BatchItems}

\* add_visited_urls called on a constructed session with any batch
AddVisitedUrlsCall ==
    /\ pc = "ready"
    /\ Len(flushed) < MaxCalls
    /\ \E b \in Batches, up \in BOOLEAN :
         /\ ~up => budget > 0
         /\ budget' = IF up THEN budget ELSE budget - 1
         /\ ledger' = AddVisitedUrls(ledger, b, Domain, clock, StoreOk(up))
         /\ lastCommitted' = IF StoreOk(up) /\ b # <<>> THEN b ELSE lastCommitted
         /\ flushed' = flushed \o <<b>>
    /\ clock' = clock + 1
    /\ UNCHANGED <<websites, pc, argVars, ctorVars, seedVars, loopVars, to_visit,
                   responses, response, newly_visited_urls, navLog, clsLog, cookieLog,
                   returned, site>>

InitLedger ==
    /\ ledger \in LedgerChoices
    /\ websites = {}
    /\ clock = 1
    /\ attrs = NoArgs
    /\ given = attrs
    /\ crawl = TRUE
    /\ max_pages = MaxPages
    /\ site = "bare"
    /\ budget = MaxFaults
    /\ InitSession

NextLedger ==
    \/ CtorStore
    \/ CtorBrowser
    \/ CtorLogin
    \/ AddVisitedUrlsCall

SpecLedger == InitLedger /\ [][NextLedger]_vars

\* ------------------------------------------- the site configuration
StoredRow(d, v) == WebsiteRow(d, [f \in Fields |-> v], 0)
PartialRow ==
    WebsiteRow(Domain,
               [login_url |-> "old", username |-> Null, password |-> Empty,
                username_selector |-> "old", password_selector |-> Null,
                submit_button_selector |-> "old"], 0)

\* what table websites can hold when a session starts
WebsiteChoices ==
    { {}, {StoredRow(Domain, "old")}, {PartialRow}, {StoredRow(OtherDomain, "old")},
      {StoredRow(Domain, "old"), StoredRow(OtherDomain, "old")} }

\* constructor arguments: every field absent, empty or given
WideArgs ==
    [login_url : {Null, Empty, "new"}, username : {Null, Empty, "new"},
     password : {Null, Empty, "new"}, username_selector : {Null, "new"},
     password_selector : {Null, "new"}, submit_button_selector : {Null, "new"}]

InitConfig ==
    /\ ledger \in {{}, {LedgerRow(1, Domain, 0, "article")}}
    /\ websites \in WebsiteChoices
    /\ clock = 1
    /\ attrs \in WideArgs
    /\ given = attrs
    /\ crawl = TRUE
    /\ max_pages = MaxPages
    /\ site = "bare"
    /\ budget = 1
    /\ InitSession

SpecConfig == InitConfig /\ [][Next]_vars

\* ------------------------------------------------------------ claims
HrefSet(links) == {links[i].href : i \in DOMAIN links}
Distinct(q) == \A i, j \in DOMAIN q : i # j => q[i] # q[j]
BatchUrls(b) == [i \in DOMAIN b |-> b[i][1]]
\* scrape() has flushed and returned
ScrapeReturned == flushed # <<>>
\* the frontier as the seed step built it
SeedFrontier == FilterSeed(lucky_urls, urls)
AllClassified == \A i \in DOMAIN clsLog : clsLog[i][2] = "ok"

\* Scenario B: crawl enabled, quota 3, a seed frontier of 10 distinct URLs
\* unknown to the membership cache, every navigation and classification
\* succeeding, and scrape() has returned
ScenarioB ==
    /\ ScrapeReturned
    /\ crawl
    /\ max_pages = 3
    /\ Len(SeedFrontier) = 10
    /\ Distinct(SeedFrontier)
    /\ \A i \in DOMAIN SeedFrontier : ~IsUrlVisited(SeedFrontier[i])
    /\ AllClassified

NeverNavigated == {u \in SeqToSet(SeedFrontier) : u \notin SeqToSet(navLog)}

\* C1 as stated: in Scenario B scrape() returns exactly 3 results, at least 7
\* frontier URLs are never navigated, and the single flush holds exactly the
\* seed URL plus the 3 URLs the loop processed.
C1_ScenarioB_Original ==
    ScenarioB =>
        /\ Len(returned) = 3
        /\ Cardinality(NeverNavigated) >= 7
        /\ Len(flushed) = 1
        /\ BatchUrls(flushed[1]) = navLog
        /\ navLog[1] = Root
        /\ Len(navLog) = 1 + 3

\* C1 amended: in Scenario B scrape() returns exactly 3 results (the root's
\* and two from the loop), at least 7 frontier URLs are never navigated, and
\* the single flush holds exactly the seed URL plus the 2 URLs the loop
\* processed.
C1_ScenarioB ==
    ScenarioB =>
        /\ Len(returned) = 3
        /\ returned[1][1] = Root
        /\ Cardinality(NeverNavigated) >= 7
        /\ Len(flushed) = 1
        /\ BatchUrls(flushed[1]) = navLog
        /\ navLog[1] = Root
        /\ Len(navLog) = 1 + 2

C1_Witness == ScenarioB /\ Len(returned) = 3 /\ Len(flushed[1]) = 3

\* C2: whatever the quota, the crawl flag and the collaborators' outcomes,
\* the list scrape() returns is no longer than the page quota.
C2_QuotaBound == ScrapeReturned => Len(returned) <= max_pages

\* C3: a URL recorded in the Ledger for the domain when the session is
\* constructed is never navigated to by scrape(), the root URL included
\* (before the flush the Ledger still is what it was at construction; the
\* states in which scrape() has not raised are enough to decide it).
C3_KnownNeverReprocessed ==
    (flushed = <<>> /\ pc # "raised") =>
        \A i \in DOMAIN navLog :
            ~\E r \in ledger : r.url = navLog[i] /\ r.domain = Domain

\* C4: once a URL has been processed in scrape(), is_url_visited is true of
\* it for the rest of the call, and no URL is navigated twice in one call.
C4_CacheGrows ==
    /\ pc = "loop" => \A i \in DOMAIN navLog : IsUrlVisited(navLog[i])
    /\ Distinct(navLog)

\* C5: every URL the loop dequeued and did not skip is in the visited
\* accumulator, and in the flushed batch, whether its navigation and
\* classification succeeded or failed, and a failed navigation does not end
\* the loop.
C5_FailedUrlAccumulated ==
    /\ pc = "loop" =>
          \A i \in 2..Len(navLog) : navLog[i] \in SeqToSet(BatchUrls(newly_visited_urls))
    /\ (ScrapeReturned /\ crawl) =>
          \A i \in 2..Len(navLog) : navLog[i] \in SeqToSet(BatchUrls(flushed[1]))
    /\ ~(pc = "raised" /\ flushed = <<>> /\ Len(navLog) >= 2
         /\ Len(clsLog) < Len(navLog))

\* C6: when the extraction or the classification of the root page fails,
\* scrape() does not raise, the root is recorded as visited with a null
\* classification, no result is appended for the root and the crawl goes on
\* to the loop or, with crawl disabled, to the flush.
C6_RootFailureTolerated ==
    (clsLog # <<>> /\ clsLog[1][2] \in {"raise", "extract_raise"}) =>
        /\ ~(pc = "raised" /\ flushed = <<>> /\ Len(navLog) = 1)
        /\ pc = "loop" => newly_visited_urls[1] = <<Root, Null>>
        /\ flushed # <<>> => flushed[1][1] = <<Root, Null>>
        /\ \A i \in DOMAIN responses : responses[i][1] # Root \/ i > 1

\* C7: at the seed step, for a suggested list S and observed hrefs O, the
\* frontier is S restricted to O in S's order and the logged hallucination
\* count is the number of suggestions dropped; in Scenario A (5 links, 3
\* valid and 1 non-existent suggestion) 3 URLs are enqueued and 1
\* hallucination is logged.
C7_SeedFilter ==
    (pc = "classify_root" /\ lucky_urls.kind = "list") =>
        /\ to_visit = SelectSeq(lucky_urls.v, LAMBDA u : u \in HrefSet(urls))
        /\ hallucinated =
             Cardinality({i \in DOMAIN lucky_urls.v : lucky_urls.v[i] \notin HrefSet(urls)})
        /\ (Len(urls) = 5 /\ lucky_urls.v = <<1, 2, 3, Ghost>>) =>
               (Len(to_visit) = 3 /\ hallucinated = 1)

C7_Witness ==
    /\ pc = "classify_root"
    /\ Len(urls) = 5
    /\ lucky_urls = LikelyList(<<1, 2, 3, Ghost>>)
    /\ to_visit = <<1, 2, 3>>
    /\ hallucinated = 1

\* C8: in the crawl loop, when the collaborator answers with a list, the
\* suggested URLs that are hrefs of links observed on the page are appended
\* to the tail of the frontier and the others are dropped.
C8_LoopFilter ==
    [][(/\ pc = "loop"
        /\ pc' = "loop"
        /\ Len(navLog') = Len(navLog) + 1
        /\ triaged' = "answered"
        /\ new_lucky_urls'.kind = "list")
       => to_visit' = Tail(to_visit)
              \o SelectSeq(new_lucky_urls'.v, LAMBDA u : u \in HrefSet(new_links'))]_vars


\* C9: add_visited_urls is idempotent: a call that repeats the batch of the
\* latest committed call, duplicates in the batch included, leaves the
\* Ledger as the first call left it.
C9_RecordVisitedIdempotent ==
    [][(Len(flushed') = Len(flushed) + 1 /\ flushed'[Len(flushed')] = lastCommitted)
       => ledger' = ledger]_vars

\* the same batch, holding one URL twice with different flags, was committed
\* twice in a row and the row still carries the first call's timestamp
C9_Witness ==
    /\ Len(flushed) >= 2
    /\ flushed[Len(flushed)] = flushed[Len(flushed) - 1]
    /\ lastCommitted = flushed[Len(flushed)]
    /\ budget = MaxFaults
    /\ Len(lastCommitted) = 2
    /\ lastCommitted[1][1] = lastCommitted[2][1]
    /\ lastCommitted[1][2] # lastCommitted[2][2]
    /\ \E r \in ledger : /\ r.url = lastCommitted[1][1]
                         /\ r.domain = Domain
                         /\ r.is_article = lastCommitted[1][2]
                         /\ r.visit_date = clock - 2

\* C10: add_website on a domain that has a record leaves every field the
\* session holds as null unchanged and sets every other field to the
\* session's value; on a domain without a record it inserts the session's
\* values; the records of other domains are untouched.
C10_ConfigMerge ==
    [][(pc = "done" /\ pc' = "saved") =>
        /\ \A r \in websites : r.url # Domain => r \in websites'
        /\ Cardinality(Existing(websites', Domain)) = 1
        /\ \A new \in Existing(websites', Domain) :
             IF Existing(websites, Domain) = {}
             THEN \A f \in Fields : new[f] = attrs[f]
             ELSE \A old \in Existing(websites, Domain) : \A f \in Fields :
                     /\ attrs[f] = Null => new[f] = old[f]
                     /\ attrs[f] # Null => new[f] = attrs[f]]_vars

\* a record was merged: a field the session did not hold kept its stored
\* value and a field the session held was replaced
C10_Witness ==
    /\ pc = "saved"
    /\ \E r \in Existing(websites, Domain) :
         /\ r.last_updated > 0
         /\ attrs.username_selector = Null /\ r.username_selector = "old"
         /\ attrs.login_url = "new" /\ r.login_url = "new"

\* C11: add_website never replaces a stored non-empty field by an empty
\* one: a field the caller passed as '' or not at all, and that table
\* websites holds non-empty before the upsert, is non-empty after it, also
\* when the stored-configuration read of the constructor failed.
C11_UpsertKeepsStored ==
    [][(pc = "done" /\ pc' = "saved") =>
        \A old \in Existing(websites, Domain) : \A new \in Existing(websites', Domain) :
            \A f \in Fields :
                (~Truthy(given[f]) /\ Truthy(old[f])) => Truthy(new[f])]_vars

\* C12: when the caller passes neither username nor password, whatever
\* table websites holds, the session stays anonymous: logged_in is false, no
\* cookies are kept, and construction neither navigates to a login page nor
\* calls a login-detection collaborator.
C12_NoCredentialsAnonymous ==
    (given.username = Null /\ given.password = Null) =>
        /\ ~logged_in
        /\ session_cookies = Null
        /\ loginLog = <<>>

\* C13: when the session has credentials and the login URL it resolved
\* (passed, stored or inferred) is missing or is no well-formed URL string,
\* construction completes without raising, logged_in stays false and no
\* credentials are submitted, whether or not the selectors are available.
C13_BadLoginUrlFallsBack ==
    [][(pc = "ctor_login" /\ CanAuthenticate(attrs) /\ ~WellFormed(attrs'.login_url))
       => (pc' = "ready" /\ ~logged_in' /\ ~InList("submit", loginLog'))]_vars

\* C14: when the session has credentials and a login URL but, after the
\* passed and stored values and the collaborator's detection, one of the three
\* selectors is empty or the detection failed, login() is not called,
\* construction completes without raising and logged_in is false.
C14_MissingSelectorFallsBack ==
    [][(/\ pc = "ctor_login"
        /\ CanAuthenticate(attrs)
        /\ IsStr(attrs'.login_url) /\ Truthy(attrs'.login_url)
        /\ \E f \in SelectorFields : ~Truthy(attrs'[f]))
       => (/\ pc' = "ready"
           /\ ~logged_in'
           /\ session_cookies' = Null
           /\ ~InList("login", loginLog'))]_vars

\* the selector detection ran for a session with credentials and a login
\* URL, a selector is still empty, and the session is anonymous
C14_Witness ==
    /\ pc = "ready"
    /\ CanAuthenticate(attrs)
    /\ WellFormed(attrs.login_url)
    /\ \E f \in SelectorFields : ~Truthy(attrs[f])
    /\ InList("detect_selectors", loginLog)
    /\ ~logged_in

\* C15: the verification after the form submission is fatal and is the only
\* way to logged_in: an empty cookie set after the submission makes the
\* constructor raise with logged_in false, and logged_in is true only after
\* a submission that left a non-empty cookie set in session_cookies.
C15_VerificationFatal ==
    /\ [](logged_in => (CookiesTruthy /\ InList("submit", loginLog)))
    /\ [][(pc = "ctor_login" /\ session_cookies' = "[]")
          => (pc' = "ctor_raised" /\ ~logged_in')]_vars

\* the form was submitted, no cookie came back and the constructor raised
C15_Witness ==
    /\ pc = "ctor_raised"
    /\ InList("submit", loginLog)
    /\ session_cookies = "[]"
    /\ ~logged_in

\* C16: after a back-fill whose read of table websites succeeded, each of
\* the six attributes is what the caller passed if the caller passed a
\* non-empty value, else the stored value if there is a non-empty one, else
\* still unset; a stored value never replaces a value the caller passed.
C16_BackFill ==
    [][(pc = "new" /\ pc' = "ctor_browser" /\ budget' = budget) =>
        \A f \in Fields :
            attrs'[f] =
                IF Truthy(given[f]) THEN given[f]
                ELSE IF \E r \in Existing(websites, Domain) : Truthy(r[f])
                     THEN (CHOOSE r \in Existing(websites, Domain) : TRUE)[f]
                     ELSE given[f]]_vars

\* a passed value was kept although one was stored, an absent attribute was
\* filled from the record, and one absent from both stayed unset
C16_Witness ==
    /\ pc = "ctor_browser"
    /\ PartialRow \in websites
    /\ given.login_url = "new" /\ attrs.login_url = "new"
    /\ given.username_selector = Null /\ attrs.username_selector = "old"
    /\ given.password_selector = Null /\ attrs.password_selector = Null

\* C17: scrape() writes the Ledger only through one add_visited_urls call
\* after the crawl: every step that is not that call, the step that aborts
\* scrape() included, leaves the Ledger as it was, and a scrape() that
\* returned has called add_visited_urls exactly once.
C17_SingleFlush ==
    /\ [][flushed' = flushed => ledger' = ledger]_vars
    /\ [](pc \in {"done", "saved"} => Len(flushed) = 1)

\* scrape() processed two pages beside the root and committed all three in
\* its only add_visited_urls call
C17_Witness ==
    /\ pc = "done"
    /\ Len(flushed) = 1
    /\ Len(flushed[1]) = 3
    /\ lastCommitted = flushed[1]
    /\ \E r \in ledger : r.url = flushed[1][3][1] /\ r.visit_date = clock - 1

\* C18: from the end of the rehydration on, a URL that is_url_visited
\* reports as not visited has no row for the session's domain in the Ledger
\* as it was read at construction (the Ledger stays as read until the flush).
C18_NoFalseNegatives ==
    (pc \notin {"new", "ctor_raised"} /\ flushed = <<>>) =>
        \A r \in ledger : r.domain = Domain => IsUrlVisited(r.url)

\* a session whose Ledger held two URLs of the domain reached the crawl
\* loop: both are reported visited, another URL is not
C18_Witness ==
    /\ pc = "loop"
    /\ flushed = <<>>
    /\ {r.url : r \in {e \in ledger : e.domain = Domain}} = {Root, 2}
    /\ IsUrlVisited(Root) /\ IsUrlVisited(2)
    /\ ~IsUrlVisited(1)

\* C19: when a store access of the constructor fails (engine creation,
\* stored-configuration read or visited-URL load), the constructor raises and
\* nothing is crawled.
C19_StoreFailureFatal ==
    /\ [][(pc = "new" /\ budget' < budget) => pc' = "ctor_raised"]_vars
    /\ [](pc = "ctor_raised" => (navLog = <<>> /\ returned = <<>>))

\* C20: a URL the crawl loop dequeued and whose extraction or
\* classification raised is not navigated to again in the same scrape()
\* call, also when the frontier holds it more than once.
C20_NoRetry ==
    \A i \in DOMAIN clsLog : \A j \in DOMAIN navLog :
        (i >= 2 /\ j > i /\ clsLog[i][2] = "raise") => navLog[j] # clsLog[i][1]

\* C21: a link-triage answer that is missing, empty, or made only of URLs
\* the page does not link to never makes scrape() raise: at the seed step
\* and in the loop nothing is enqueued for that page and the crawl goes on.
C21_TriageTolerated ==
    [][/\ (/\ pc = "ready"
           /\ response' = UrlsResponse
           /\ \A i \in DOMAIN lucky_urls'.v : lucky_urls'.v[i] \notin HrefSet(urls'))
          => (pc' = "classify_root" /\ to_visit' = <<>>)
       /\ (/\ pc = "loop"
           /\ pc' = "loop"
           /\ Len(navLog') = Len(navLog) + 1
           /\ \/ triaged' = "raised"
              \/ \A i \in DOMAIN new_lucky_urls'.v :
                     new_lucky_urls'.v[i] \notin HrefSet(new_links'))
          => to_visit' = Tail(to_visit)]_vars

\* C22: a row of the Ledger, once written, is never removed and its
\* is_article flag and visit_date never change, whatever is flushed later;
\* (url, domain) stays a key.
C22_RecordImmutable ==
    /\ [][\A r \in ledger : r \in ledger']_vars
    /\ [](\A r1 \in ledger : \A r2 \in ledger :
             (r1.url = r2.url /\ r1.domain = r2.domain) => r1 = r2)

\* two committed batches: the second gives URL 1 another flag at a later
\* time, the row of URL 1 still is the one the first batch wrote
C22_Witness ==
    /\ Len(flushed) = 2
    /\ budget = MaxFaults
    /\ flushed[1] = << <<1, "article">> >>
    /\ flushed[2] = << <<1, Null>> >>
    /\ LedgerRow(1, Domain, clock - 2, "article") \in ledger
    /\ LedgerRow(1, Domain, clock - 1, Null) \notin ledger

\* C23: the frontier is FIFO: in a scrape() call the URLs taken from the
\* frontier, in order, are a prefix of the URLs put on it, in order, and
\* what is left on the frontier is the rest of them.
C23_Fifo ==
    /\ Len(dequeued) <= Len(enqueued)
    /\ dequeued = SubSeq(enqueued, 1, Len(dequeued))
    /\ pc = "loop" => enqueued = dequeued \o to_visit

\* two URLs were taken, one skipped and one navigated, and more are waiting
C23_Witness ==
    /\ pc = "loop"
    /\ Len(dequeued) = 2
    /\ Len(navLog) = 2
    /\ Len(to_visit) >= 1
    /\ dequeued[1] # dequeued[2]

\* C24: an iteration whose head URL the membership cache marks visited
\* only removes that URL from the frontier: nothing is navigated or
\* classified, the results, the visited accumulator and the cache are
\* unchanged, and so is the count the quota is compared with.
C24_SkipFrame ==
    [][(/\ pc = "loop"
        /\ to_visit # <<>> /\ Len(responses) < max_pages
        /\ Head(to_visit) \in visited_urls \cup fp)
       => (/\ to_visit' = Tail(to_visit)
           /\ navLog' = navLog
           /\ clsLog' = clsLog
           /\ responses' = responses
           /\ newly_visited_urls' = newly_visited_urls
           /\ visited_urls' = visited_urls /\ fp' = fp
           /\ ledger' = ledger
           /\ pc' = "loop")]_vars

\* a URL the Ledger held was taken from the frontier and skipped
C24_Witness ==
    /\ pc = "loop"
    /\ dequeued # <<>>
    /\ dequeued[Len(dequeued)] \in visited_urls
    /\ Len(navLog) = 1
    /\ Len(responses) = 1

\* C25: in a logged-in session the retained cookies are applied to the
\* browser context before every navigation of scrape(), the root's and each
\* frontier URL's; in an anonymous session no cookies are applied.
C25_CookiesBeforeEveryNavigation ==
    /\ logged_in =>
          \A i \in DOMAIN navLog : \E k \in DOMAIN cookieLog : cookieLog[k] = i - 1
    /\ ~logged_in => cookieLog = <<>>

\* C26: when every call scrape() makes returns, a scrape() that entered the
\* crawl loop eventually leaves it with the frontier empty or the quota
\* reached, flushes the visited accumulator and returns.
C26_Terminates ==
    (pc = "loop") ~> (pc = "done" /\ ~LoopGuard /\ Len(flushed) = 1)

\* C27: a session given username '' and password '', with nothing stored
\* for the domain, is anonymous: no login-URL or selector detection is
\* asked for and no login page is navigated to.
C27_EmptyCredentialsAnonymous ==
    (/\ given.username = Empty /\ given.password = Empty
     /\ pc # "saved"
     /\ Existing(websites, Domain) = {})
    => (loginLog = <<>> /\ ~logged_in /\ session_cookies = Null)

\* C28: a selector the caller passed keeps the caller's value through
\* construction, also when the other selectors are detected.
C28_GivenSelectorKept ==
    \A f \in SelectorFields : Truthy(given[f]) => attrs[f] = given[f]

\* C29: when the store fails at the flush that follows the crawl loop,
\* scrape() still returns its results without raising and the Ledger is as
\* it was before the call.
C29_FlushFailureSilent ==
    [][(pc = "loop" /\ ~LoopGuard /\ budget' < budget)
       => (/\ pc' = "done"
           /\ returned' = responses
           /\ Len(flushed') = Len(flushed) + 1
           /\ ledger' = ledger)]_vars

\* scrape() returned a result and flushed once, nothing was committed and
\* the Ledger is still empty
C29_Witness ==
    /\ pc = "done"
    /\ crawl
    /\ Len(flushed) = 1
    /\ lastCommitted = <<>>
    /\ returned # <<>>
    /\ ledger = {}

\* C30: with crawl disabled scrape() navigates to the root only and takes
\* nothing from the frontier; what it returns holds at most the root's
\* result, and its only flush holds one record, the root URL with the
\* classification of the returned result.
C30_CrawlDisabledRootOnly ==
    ~crawl =>
        /\ \A i \in DOMAIN navLog : navLog[i] = Root
        /\ Len(navLog) <= 1
        /\ dequeued = <<>>
        /\ pc # "loop"
        /\ flushed # <<>> =>
              /\ Len(flushed) = 1
              /\ Len(flushed[1]) = 1
              /\ flushed[1][1][1] = Root
              /\ Len(returned) <= 1
              /\ returned # <<>> =>
                    /\ returned[1][1] = Root
                    /\ flushed[1][1][2] = Recorded(returned[1][2])

\* crawl disabled, a non-empty frontier left untouched, the root's result
\* returned and the root flushed as an article
C30_Witness ==
    /\ ~crawl
    /\ pc = "done"
    /\ to_visit # <<>>
    /\ navLog = <<Root>>
    /\ Len(returned) = 1
    /\ flushed = << << <<Root, "article">> >> >>

====
